---------------------------- MODULE Spec2Model ----------------------------
(***************************************************************************)
(* A model of monitor.py: the IRC client TorrentLeechIRC (connect, the     *)
(* background monitor_loop, the announce parser) and TorrentMonitor (the   *)
(* live callback on_freeleech_announce, the feed poller check_rss_feed,    *)
(* the size filter, download_torrent, run and stop).                       *)
(*                                                                         *)
(* Two threads run: "main" (run, check_rss_feed, stop) and "mon" (the      *)
(* daemon thread of start_monitor, which also runs the callback).  A step  *)
(* of the model is a stretch of code that touches shared state at most     *)
(* once; `x += 1` on a stats counter is a load followed by a store.        *)
(***************************************************************************)
EXTENDS Integers, Sequences, FiniteSets, TLC

(* ------------------------------ bounds --------------------------------- *)
\* torrent identifiers 1..MaxId
MaxId == 1
\* lines returned by one _read_lines call
MaxBatch == 2
\* entries of one parsed feed
MaxFeed == 2
\* poll cycles of the main loop that are explored
MaxPolls == 2
\* monitor threads that a client of TorrentLeechIRC gets started
MaxStarts == 2
\* calls of start_monitor and stop_monitor that a client makes
MaxCalls == 4

(* ------------------------- program constants --------------------------- *)
\* monitor_loop: max_reconnect = 5
max_reconnect == 5

Ids == 1..MaxId
Threads == {"main", "mon"}

(* ------------------------- optional values ----------------------------- *)
\* Python None for a string-valued and for a number-valued expression
NoneStr == [some |-> FALSE, v |-> <<>>]
NoneNum == [some |-> FALSE, v |-> 0]
Some(x) == [some |-> TRUE, v |-> x]

(* ------------------------------ strings -------------------------------- *)
\* strings are sequences of characters
LowerChar(c) ==
  CASE c = "T" -> "t"
    [] c = "V" -> "v"
    [] c = "M" -> "m"
    [] c = "H" -> "h"
    [] c = "U" -> "u"
    [] OTHER -> c
Lower(s) == [i \in 1..Len(s) |-> LowerChar(s[i])]
\* a in b, for strings
IsSubstr(a, b) ==
  \E i \in 1..(Len(b) + 1) :
     /\ i + Len(a) - 1 <= Len(b)
     /\ SubSeq(b, i, i + Len(a) - 1) = a
\* a match that compares the terms as they are written
CategoryMatchesExact(cats, category) ==
  \E k \in 1..Len(cats) : IsSubstr(cats[k], category)

\* any(cat.lower() in category.lower() for cat in self.categories)
CategoryMatches(cats, category) ==
  \E k \in 1..Len(cats) : IsSubstr(Lower(cats[k]), Lower(category))

CatTV == <<"T", "V">>
CatMovies == <<"M", "o">>
CatUnknown == <<"U", "n">>
\* a feed category that contains the term TV inside a longer word
CatHTV == <<"H", "T", "V">>
\* the category strings that occur in announcements and feed tags
CatValues == {CatTV, CatMovies}
\* the configurations that are explored: --categories (<<>>: none given),
\* --min-size and --max-size in GB, and whether FTP upload is enabled
\* and whether an IRC password is given
Config(cats, mn, mx, ftp, pw) ==
  [categories |-> cats, min_size |-> mn, max_size |-> mx, ftp_enabled |-> ftp,
   password |-> pw]
Configs ==
  { Config(<<>>, NoneNum, NoneNum, FALSE, FALSE),
    Config(<<<<"t", "v">>>>, Some(1), Some(2), TRUE, TRUE),
    Config(<<>>, Some(1), NoneNum, FALSE, TRUE),
    Config(<<<<"t", "v">>>>, NoneNum, Some(2), FALSE, FALSE) }

(* ------------------------ lines and the parser ------------------------- *)
\* A line is a sequence of whitespace-separated tokens; a token has a kind
\* k, a number n (the digits after torrent/) and a string s (the text in
\* <...> or in Name:'...').
Tok(k) == [k |-> k, n |-> 0, s |-> <<>>]
TokS(k, s) == [k |-> k, n |-> 0, s |-> s]
TokN(k, n) == [k |-> k, n |-> n, s |-> <<>>]
channel == "#tlannounces"
TitleStr == <<"U", "b">>

\* the announce line of the bot, the optional parts present or not
AnnounceLine(id, cat, hasTitle, fl) ==
  <<Tok(":bot"), Tok("PRIVMSG"), Tok(channel)>>
  \o (IF cat.some THEN <<TokS("<>", cat.v)>> ELSE <<>>)
  \o (IF hasTitle THEN <<TokS("Name:", TitleStr)>> ELSE <<>>)
  \o <<Tok("uploaded by")>>
  \o (IF fl THEN <<Tok("freeleech")>> ELSE <<>>)
  \o <<Tok("-"), TokN("torrent/", id)>>

PingLine == <<Tok("PING"), Tok(":srv")>>
NoticeLine == <<Tok(":srv"), Tok("NOTICE")>>
\* a channel message that names no torrent
ChatLine == <<Tok(":bot"), Tok("PRIVMSG"), Tok(channel), Tok("hello")>>
\* an announcement seen on another channel
OtherChannelLine(id) ==
  <<Tok(":bot"), Tok("PRIVMSG"), Tok("#other"), Tok("uploaded by"),
    Tok("freeleech"), Tok("-"), TokN("torrent/", id)>>

\* the lines the server is taken to send
Lines ==
  {PingLine, NoticeLine, ChatLine}
  \cup {OtherChannelLine(i) : i \in Ids}
  \cup {AnnounceLine(i, c, t, f) :
          i \in Ids, c \in {NoneStr} \cup {Some(x) : x \in CatValues},
          t \in BOOLEAN, f \in BOOLEAN}

HasTok(line, k) == \E i \in 1..Len(line) : line[i].k = k
FirstTok(line, k) ==
  CHOOSE i \in 1..Len(line) :
     /\ line[i].k = k
     /\ \A j \in 1..(i - 1) : line[j].k # k

\* line.startswith('PING')
IsPing(line) == Len(line) > 0 /\ line[1].k = "PING"
\* 'PRIVMSG' in line and self.channel in line
IsChannelMsg(line) == HasTok(line, "PRIVMSG") /\ HasTok(line, channel)

\* re.search(r"uploaded by '[^']+' freeleech\s", message, re.IGNORECASE):
\* the word freeleech right after the uploader, and a blank after it
FreeleechFlag(line) ==
  \E i \in 1..Len(line) :
     /\ line[i].k = "uploaded by"
     /\ i + 1 < Len(line)
     /\ line[i + 1].k = "freeleech"

NoAnnounce ==
  [ok |-> FALSE, id |-> 0, freeleech |-> FALSE,
   category |-> NoneStr, title |-> NoneStr]

\* TorrentLeechIRC.parse_announce_message: None without a torrent id,
\* otherwise the dict with id, freeleech, category and title
parse_announce_message(line) ==
  IF ~HasTok(line, "torrent/")
  THEN NoAnnounce
  ELSE [ok |-> TRUE,
        id |-> line[FirstTok(line, "torrent/")].n,
        freeleech |-> FreeleechFlag(line),
        category |-> IF HasTok(line, "<>")
                     THEN Some(line[FirstTok(line, "<>")].s) ELSE NoneStr,
        title |-> IF HasTok(line, "Name:")
                  THEN Some(line[FirstTok(line, "Name:")].s) ELSE NoneStr]

(* ------------------- the freeleech test, by character ------------------ *)
\* A message text is a sequence of pieces: "ub" and "UB" stand for the
\* words `uploaded by ` in lower and in upper case, "fl" and "FL" for the
\* word freeleech, "'" for a quote, " " and "tab" for white space, "x" for
\* a letter and "-" for another character.
Fold(c) ==
  CASE c = "UB" -> "ub"
    [] c = "FL" -> "fl"
    [] OTHER -> c
IsSpace(c) == c \in {" ", "tab"}
At(m, i) == IF i \in 1..Len(m) THEN m[i] ELSE "end"

\* [^']+ : the position after the longest run of non-quotes from j on
RECURSIVE RunEnd(_, _)
RunEnd(m, j) ==
  IF j > Len(m) \/ m[j] = "'" THEN j ELSE RunEnd(m, j + 1)

\* a search that takes the word freeleech anywhere in the text
freeleech_anywhere(m) == \E i \in 1..Len(m) : Fold(m[i]) = "fl"

\* line 149: bool(re.search(r"uploaded by '[^']+' freeleech\s", message,
\* re.IGNORECASE)): from each position, the literal, the run of
\* non-quotes (which the closing quote must follow, so no shorter run can
\* match), the literal and one white-space character
freeleech_search(m) ==
  \E i \in 1..Len(m) :
     /\ Fold(m[i]) = "ub"
     /\ At(m, i + 1) = "'"
     /\ LET e == RunEnd(m, i + 2) IN
        /\ e > i + 2
        /\ At(m, e) = "'"
        /\ At(m, e + 1) = " "
        /\ Fold(At(m, e + 2)) = "fl"
        /\ IsSpace(At(m, e + 3))

\* the texts that are parsed: what precedes, `uploaded by`, the quoted
\* uploader, what separates, the word, what follows
Messages ==
  {pre \o by \o open \o name \o close \o sep \o word \o after :
     pre \in {<<>>, <<"fl", " ">>, <<"x", "fl", " ">>},
     by \in {<<>>, <<"ub">>, <<"UB">>},
     open \in {<<>>, <<"'">>},
     name \in {<<>>, <<"x">>, <<"x", " ", "x">>, <<"fl">>},
     close \in {<<>>, <<"'">>},
     sep \in {<<>>, <<" ">>, <<" ", " ">>, <<"tab">>, <<" ", "x">>},
     word \in {<<>>, <<"fl">>, <<"FL">>},
     after \in {<<>>, <<" ">>, <<"tab">>, <<"x">>, <<"-">>}}

(* --------------------------- the size filter --------------------------- *)
RECURSIVE SumLengths(_)
SumLengths(files) ==
  IF files = <<>> THEN 0 ELSE Head(files) + SumLengths(Tail(files))

\* what the fetch of a .torrent URL yields: the request fails, or the
\* payload does not decode, or it decodes to a dict with or without
\* b'info', single-file (b'length') or multi-file (b'files'); lengths in GB
Payload(fetched, hasInfo, single, length, files) ==
  [fetched |-> fetched, hasInfo |-> hasInfo, single |-> single,
   length |-> length, files |-> files]
Payloads ==
  { Payload(FALSE, FALSE, FALSE, 0, <<>>),
    Payload(TRUE, FALSE, FALSE, 0, <<>>),
    Payload(TRUE, TRUE, TRUE, 0, <<>>),
    Payload(TRUE, TRUE, TRUE, 1, <<>>),
    Payload(TRUE, TRUE, TRUE, 3, <<>>),
    Payload(TRUE, TRUE, FALSE, 0, <<1, 1>>) }

\* TorrentMonitor.get_torrent_size: None on any exception, else the size
get_torrent_size(p) ==
  IF ~p.fetched THEN NoneNum
  ELSE IF ~p.hasInfo THEN Some(0)
  ELSE IF p.single THEN Some(p.length)
  ELSE Some(SumLengths(p.files))

\* a size test that also skips a candidate whose size is unknown
SizeRejectsUnknown(mn, mx, size_gb) ==
  /\ mn.some \/ mx.some
  /\ \/ ~size_gb.some
     \/ mn.some /\ size_gb.v < mn.v
     \/ mx.some /\ size_gb.v > mx.v

\* the size test of on_freeleech_announce (329-337) and of check_rss_feed
\* (390-398): TRUE when the candidate is skipped
SizeRejects(mn, mx, size_gb) ==
  /\ mn.some \/ mx.some
  /\ size_gb.some
  /\ \/ mn.some /\ size_gb.v < mn.v
     \/ mx.some /\ size_gb.v > mx.v

(* ------------------------------- state --------------------------------- *)
VARIABLES
  cfg,                 \* categories, min_size, max_size, ftp_enabled,
                       \* password
  sent,                \* the registration commands connect() has sent
  message,             \* the text given to parse_announce_message
  parsed,              \* its 'freeleech' entry: "unparsed", "true", "false"
  loop_thread,         \* where the k-th thread started by start_monitor is
  caller,              \* where a client calling start/stop_monitor is
  calls,               \* how many such calls the client has made
  sock,                \* TorrentLeechIRC.socket and its transport
  connected,           \* TorrentLeechIRC.connected
  irc_running,         \* TorrentLeechIRC.running
  freeleech_torrents,  \* TorrentLeechIRC.freeleech_torrents
  processed_torrents,  \* TorrentMonitor.processed_torrents
  stats,               \* TorrentMonitor.stats
  mon_running,         \* TorrentMonitor.running
  pc,                  \* where each thread is
  cand,                \* the announce_info or feed entry a thread works on
  tmp,                 \* the counter value a thread loaded for `+= 1`
  size_gb,             \* local size_gb of the callback and of the poller
  reconnect_attempts,  \* local of monitor_loop
  linesLeft,           \* lines of the current batch not yet iterated
  entriesLeft,         \* entries of the current feed not yet iterated
  stopCalls,           \* how many times stop() was entered
  flAnnounced,         \* history: ids parsed by the read loop with freeleech
  dlCount,             \* history: download_torrent invocations per id
  dlFailed,            \* history: ids for which a download_torrent failed
  counted,             \* history: the thread did torrents_found += 1 for cand
  ev                   \* what the last step did, of: "io_failed" (a send
                       \* or a recv failed or found the connection closed),
                       \* "quit_failed" (the same for the QUIT of disconnect),
                       \* "ping_dropped" (a PING line that was read is
                       \* discarded unanswered), "cb_missed" (an announce
                       \* parsed as freeleech is discarded, no callback),
                       \* "dl_true", "dl_false" (download_torrent returns
                       \* True, False)

vars ==
  <<cfg, sent, message, parsed, loop_thread, caller, calls, sock, connected, irc_running, freeleech_torrents, processed_torrents,
    stats, mon_running, pc, cand, tmp, size_gb, reconnect_attempts, linesLeft,
    entriesLeft, stopCalls, flAnnounced, dlCount, dlFailed, counted, ev>>

\* the state of the IRC client, of the monitor, and of the two activities
\* what no step of the program changes
env == <<cfg, message, parsed, loop_thread, caller, calls>>
\* the same, and what only connect() changes
fixed == <<env, sent>>
irc == <<sock, connected, irc_running, freeleech_torrents>>
mon == <<processed_torrents, stats, mon_running>>
loops == <<size_gb, reconnect_attempts, linesLeft, entriesLeft, stopCalls>>
history == <<flAnnounced, dlCount, dlFailed, counted>>

NoCand == [id |-> 0, freeleech |-> FALSE, category |-> NoneStr, link |-> FALSE]
Cand(id, fl, cat, link) ==
  [id |-> id, freeleech |-> fl, category |-> cat, link |-> link]

\* TorrentLeechIRC.__init__ and TorrentMonitor.__init__
Init ==
  /\ cfg \in Configs
  /\ sent = <<>>
  /\ message = <<>>
  /\ parsed = "unparsed"
  /\ loop_thread = [k \in 1..MaxStarts |-> "none"]
  /\ caller = "idle"
  /\ calls = 0
  /\ sock = "none"
  /\ connected = FALSE
  /\ irc_running = FALSE
  /\ freeleech_torrents = {}
  /\ processed_torrents = {}
  /\ stats = [rss_checks |-> 0, torrents_found |-> 0,
              torrents_downloaded |-> 0, errors |-> 0]
  /\ mon_running = FALSE
  /\ pc = [t \in Threads |-> IF t = "main" THEN "run" ELSE "idle"]
  /\ cand = [t \in Threads |-> NoCand]
  /\ tmp = [t \in Threads |-> 0]
  /\ size_gb = [t \in Threads |-> NoneNum]
  /\ reconnect_attempts = 0
  /\ linesLeft = 0
  /\ entriesLeft = 0
  /\ stopCalls = 0
  /\ flAnnounced = {}
  /\ dlCount = [i \in Ids |-> 0]
  /\ dlFailed = {}
  /\ counted = [t \in Threads |-> FALSE]
  /\ ev = {}

\* the daemon thread runs only while the process lives
Alive(t) == pc["main"] # "exited"
Goto(t, l) == pc' = [pc EXCEPT ![t] = l]
\* the event a failed I/O call leaves
IoEvent(failed) == IF failed THEN {"io_failed"} ELSE {}

(* ------------------------------ transport ------------------------------ *)
\* the peer closes or resets the connection, or the network goes away
TransportFails ==
  /\ sock = "open"
  /\ Alive("main")
  /\ sock' = "broken"
  /\ ev' = {}
  /\ UNCHANGED <<fixed, connected, irc_running, freeleech_torrents, mon, pc,
                 cand, tmp, loops, history>>

\* TorrentLeechIRC._read_lines: what one call may return, the non-empty
\* lines received before the timeout
Batches == UNION {[1..n -> Lines] : n \in 0..MaxBatch}
HasPing(batch) == \E i \in 1..Len(batch) : IsPing(batch[i])

\* TorrentLeechIRC.send: the exception of a failed send is swallowed;
\* the value is whether this send failed
SendFails == sock # "open"

\* recv in _read_lines: an exception or a closed connection is swallowed;
\* the value is whether this read failed
RecvFails == sock # "open"

\* self.socket.settimeout(timeout) of _read_lines, outside its try:
\* raises OSError exactly on a socket that was closed
SetTimeoutRaises == sock = "closed"

(* ------------------------ TorrentLeechIRC.connect ---------------------- *)
\* connect() runs on the main thread at startup (run) and on the monitor
\* thread for a reconnect (monitor_loop).  What the caller does with the
\* result: run starts the monitor or goes on without it; monitor_loop
\* resets or increments reconnect_attempts (and sleeps), then continues.
ConnectReturns(t, ok) ==
  /\ Goto(t, IF t = "mon" THEN "loop" ELSE IF ok THEN "start_monitor" ELSE "mloop")
  /\ reconnect_attempts' =
       IF t = "mon" THEN (IF ok THEN 0 ELSE reconnect_attempts + 1)
       ELSE reconnect_attempts

\* lines 50-64: a new socket replaces self.socket, then connect();
\* an exception leaves the new, unconnected socket in place
ConnectOpen(t) ==
  /\ Alive(t)
  /\ pc[t] = "c_open"
  /\ \/ /\ sock' = "open"
        /\ ev' = {}
        /\ Goto(t, "c_reg")
        /\ UNCHANGED reconnect_attempts
     \/ /\ sock' = "broken"
        /\ ev' = {"io_failed"}
        /\ ConnectReturns(t, FALSE)
  /\ sent' = <<>>
  /\ UNCHANGED <<env, connected, irc_running, freeleech_torrents, mon, cand,
                 tmp, size_gb, linesLeft, entriesLeft, stopCalls, history>>

\* a registration that sends the password after NICK and USER
ConnectRegisterPassLast(t) ==
  /\ Alive(t)
  /\ pc[t] = "c_reg"
  /\ sent' = sent \o <<"NICK", "USER">>
                  \o (IF cfg.password THEN <<"PASS">> ELSE <<>>)
                  \o <<"settle">>
  /\ ev' = IoEvent(SendFails)
  /\ Goto(t, "c_regread")
  /\ UNCHANGED <<env, irc, mon, cand, tmp, loops, history>>

\* lines 66-77: PASS (with a password), NICK, USER, the settle wait
ConnectRegister(t) ==
  /\ Alive(t)
  /\ pc[t] = "c_reg"
  /\ sent' = sent \o (IF cfg.password THEN <<"PASS">> ELSE <<>>)
                  \o <<"NICK", "USER", "settle">>
  /\ ev' = IoEvent(SendFails)
  /\ Goto(t, "c_regread")
  /\ UNCHANGED <<env, irc, mon, cand, tmp, loops, history>>

\* lines 80-85, the ten rounds of the registration loop, which are alike:
\* _read_lines, and every PING line of the batch is answered with
\* send(PONG); nothing read here is kept
ConnectRegRead(t) ==
  /\ Alive(t)
  /\ pc[t] = "c_regread"
  /\ IF SetTimeoutRaises
     THEN /\ ConnectReturns(t, FALSE)
          /\ ev' = {}
     ELSE /\ Goto(t, "c_join")
          /\ ev' = IoEvent(RecvFails)
          /\ UNCHANGED reconnect_attempts
  /\ UNCHANGED <<fixed, irc, mon, cand, tmp, size_gb, linesLeft, entriesLeft, stopCalls,
                 history>>

\* lines 88-90: JOIN
ConnectJoin(t) ==
  /\ Alive(t)
  /\ pc[t] = "c_join"
  /\ sent' = Append(sent, "JOIN")
  /\ ev' = IoEvent(SendFails)
  /\ Goto(t, "c_postjoin")
  /\ UNCHANGED <<env, irc, mon, cand, tmp, loops, history>>

\* line 91: self._read_lines(timeout=1), the lines read are thrown away,
\* a PING among them included
ConnectPostJoin(t) ==
  /\ Alive(t)
  /\ pc[t] = "c_postjoin"
  /\ IF SetTimeoutRaises
     THEN /\ ConnectReturns(t, FALSE)
          /\ ev' = {}
     ELSE /\ Goto(t, "c_set")
          /\ \E batch \in Batches :
                /\ batch # <<>> => sock = "open"
                /\ ev' = IoEvent(RecvFails)
                         \cup (IF HasPing(batch) THEN {"ping_dropped"} ELSE {})
          /\ UNCHANGED reconnect_attempts
  /\ UNCHANGED <<fixed, irc, mon, cand, tmp, size_gb, linesLeft, entriesLeft,
                 stopCalls, history>>

\* lines 93-95: self.connected = True; return True
ConnectSet(t) ==
  /\ Alive(t)
  /\ pc[t] = "c_set"
  /\ connected' = TRUE
  /\ ev' = {}
  /\ ConnectReturns(t, TRUE)
  /\ UNCHANGED <<fixed, sock, irc_running, freeleech_torrents, mon, cand, tmp, size_gb,
                 linesLeft, entriesLeft, stopCalls, history>>

(* ----------------------- run and start_monitor ------------------------- *)
\* run, lines 555-573: self.running = True, then irc_client.connect()
Run ==
  /\ pc["main"] = "run"
  /\ mon_running' = TRUE
  /\ ev' = {}
  /\ Goto("main", "c_open")
  /\ UNCHANGED <<fixed, irc, processed_torrents, stats, cand, tmp, loops,
                 history>>

\* start_monitor, lines 165-219: no-op when already running, otherwise
\* running = True and the daemon thread is started
StartMonitor ==
  /\ pc["main"] = "start_monitor"
  /\ IF irc_running
     THEN /\ Goto("main", "mloop")
          /\ UNCHANGED irc_running
     ELSE /\ irc_running' = TRUE
          /\ pc' = [pc EXCEPT !["main"] = "mloop", !["mon"] = "t_init"]
  /\ ev' = {}
  /\ UNCHANGED <<fixed, sock, connected, freeleech_torrents, mon, cand, tmp,
                 loops, history>>

(* ---------------------------- monitor_loop ----------------------------- *)
\* lines 171-173: settimeout(1) outside any try (an OSError ends the
\* thread), reconnect_attempts = 0
MonitorInit ==
  /\ Alive("mon")
  /\ pc["mon"] = "t_init"
  /\ Goto("mon", IF SetTimeoutRaises THEN "dead" ELSE "loop")
  /\ reconnect_attempts' = 0
  /\ ev' = {}
  /\ UNCHANGED <<fixed, irc, mon, cand, tmp, size_gb, linesLeft, entriesLeft,
                 stopCalls, history>>

\* line 175: while self.running
MonitorWhile ==
  /\ Alive("mon")
  /\ pc["mon"] = "loop"
  /\ Goto("mon", IF irc_running THEN "chkconn" ELSE "dead")
  /\ ev' = {}
  /\ UNCHANGED <<fixed, irc, mon, cand, tmp, loops, history>>

\* lines 177-188: not connected: reconnect while attempts remain, else
\* break; connected: go on to read
MonitorCheckConnected ==
  /\ Alive("mon")
  /\ pc["mon"] = "chkconn"
  /\ Goto("mon", IF connected THEN "read"
                 ELSE IF reconnect_attempts < max_reconnect THEN "c_open"
                 ELSE "dead")
  /\ ev' = {}
  /\ UNCHANGED <<fixed, irc, mon, cand, tmp, loops, history>>

\* line 190, _read_lines(timeout=1).  On a closed socket settimeout raises
\* OSError, which the handler of lines 207-213 takes: connected = False,
\* socket.close().  Otherwise recv: a failed or closed read is swallowed
\* (lines 115-121) and the lines received so far are returned.
MonitorRead ==
  /\ Alive("mon")
  /\ pc["mon"] = "read"
  /\ IF SetTimeoutRaises
     THEN /\ connected' = FALSE
          /\ Goto("mon", "loop")
          /\ ev' = {}
          /\ UNCHANGED linesLeft
     ELSE /\ \E n \in 0..MaxBatch :
                /\ n > 0 => sock = "open"
                /\ linesLeft' = n
          /\ ev' = IoEvent(RecvFails)
          /\ Goto("mon", "lines")
          /\ UNCHANGED connected
  /\ UNCHANGED <<fixed, sock, irc_running, freeleech_torrents, mon, cand, tmp, size_gb,
                 reconnect_attempts, entriesLeft, stopCalls, history>>

\* line 196, `if announce_info:` -- what lets the read loop add the id to
\* freeleech_torrents and go on to the callback
LoopTakes(a) == a.ok

\* lines 191-205, one round of `for line in lines`; the text of a line is
\* drawn when the loop reaches it.  A dict without a title makes line 200
\* raise TypeError (None[:60]): the handler of lines 214-216 sleeps and the
\* while loop goes on, the rest of the batch is lost.
MonitorLine ==
  /\ Alive("mon")
  /\ pc["mon"] = "lines"
  /\ IF linesLeft = 0
     THEN /\ Goto("mon", "loop")
          /\ ev' = {}
          /\ UNCHANGED <<linesLeft, freeleech_torrents, cand, flAnnounced>>
     ELSE \E line \in Lines :
           LET a == parse_announce_message(line) IN
           IF IsPing(line)
           THEN /\ ev' = IoEvent(SendFails)
                /\ linesLeft' = linesLeft - 1
                /\ UNCHANGED <<pc, freeleech_torrents, cand, flAnnounced>>
           ELSE IF IsChannelMsg(line) /\ LoopTakes(a)
           THEN /\ freeleech_torrents' = freeleech_torrents \cup {a.id}
                /\ flAnnounced' =
                     flAnnounced \cup (IF a.freeleech THEN {a.id} ELSE {})
                /\ IF a.title.some
                   THEN /\ cand' = [cand EXCEPT !["mon"] =
                                      Cand(a.id, a.freeleech, a.category, FALSE)]
                        /\ linesLeft' = linesLeft - 1
                        /\ Goto("mon", "cb_check")
                        /\ ev' = {}
                   ELSE /\ \E rest \in [1..(linesLeft - 1) -> Lines] :
                              ev' = (IF HasPing(rest) THEN {"ping_dropped"} ELSE {})
                                    \cup (IF a.freeleech THEN {"cb_missed"} ELSE {})
                        /\ linesLeft' = 0
                        /\ Goto("mon", "loop")
                        /\ UNCHANGED cand
           ELSE /\ linesLeft' = linesLeft - 1
                /\ ev' = {}
                /\ UNCHANGED <<pc, freeleech_torrents, cand, flAnnounced>>
  /\ UNCHANGED <<fixed, sock, connected, irc_running, mon, tmp, size_gb,
                 reconnect_attempts, entriesLeft, stopCalls, dlCount, dlFailed,
                 counted>>

(* -------------------- TorrentMonitor.on_freeleech_announce ------------- *)
\* where a thread goes on when its candidate is done: the next line of the
\* batch, the next entry of the feed
NextItem(t) == IF t = "mon" THEN "lines" ELSE "f_check"
Done(t) ==
  /\ Goto(t, NextItem(t))
  /\ cand' = [cand EXCEPT ![t] = NoCand]
  /\ counted' = [counted EXCEPT ![t] = FALSE]
\* the candidate is accepted: only its id (and its link) are used from here
Accepted(t, l) ==
  /\ Goto(t, l)
  /\ cand' = [cand EXCEPT ![t] = Cand(cand[t].id, FALSE, NoneStr, cand[t].link)]
  /\ UNCHANGED counted

\* `torrent_id in self.processed_torrents` (lines 297 and 361)
AlreadyProcessed(id) == id \in processed_torrents

\* lines 301-309: freeleech, and with a filter and a category, a match
LiveAccepts(a) ==
  /\ a.freeleech
  /\ ~(/\ cfg.categories # <<>>
       /\ a.category.some
       /\ ~CategoryMatches(cfg.categories, a.category.v))

\* lines 294-309: the checks of the callback
LiveCheck ==
  /\ Alive("mon")
  /\ pc["mon"] = "cb_check"
  /\ IF AlreadyProcessed(cand["mon"].id) \/ ~LiveAccepts(cand["mon"])
     THEN Done("mon")
     ELSE Accepted("mon", "cb_insert")
  /\ ev' = {}
  /\ UNCHANGED <<fixed, irc, mon, tmp, loops, flAnnounced, dlCount, dlFailed>>

\* lines 312 and 379: self.processed_torrents.add(torrent_id)
Insert(t, after) ==
  /\ processed_torrents' = processed_torrents \cup {cand[t].id}
  /\ Goto(t, after)
  /\ ev' = {}
  /\ UNCHANGED <<fixed, irc, stats, mon_running, cand, tmp, loops, history>>

\* line 312
LiveInsert ==
  /\ Alive("mon")
  /\ pc["mon"] = "cb_insert"
  /\ Insert("mon", "cb_found")

\* the load of `self.stats[c] += 1`
Load(t, c, after) ==
  /\ tmp' = [tmp EXCEPT ![t] = stats[c]]
  /\ Goto(t, after)
  /\ ev' = {}
  /\ UNCHANGED <<fixed, irc, mon, cand, loops, history>>

\* the store of `self.stats[c] += 1`
Store(t, c) ==
  /\ stats' = [stats EXCEPT ![c] = tmp[t] + 1]
  /\ tmp' = [tmp EXCEPT ![t] = 0]
  /\ ev' = {}

\* line 313: self.stats['torrents_found'] += 1
LiveFoundLoad ==
  /\ Alive("mon")
  /\ pc["mon"] = "cb_found"
  /\ Load("mon", "torrents_found", "cb_found_st")

LiveFoundStore ==
  /\ Alive("mon")
  /\ pc["mon"] = "cb_found_st"
  /\ Store("mon", "torrents_found")
  /\ counted' = [counted EXCEPT !["mon"] = TRUE]
  /\ Goto("mon", "cb_size")
  /\ UNCHANGED <<fixed, irc, processed_torrents, mon_running, cand, loops,
                 flAnnounced, dlCount, dlFailed>>

\* download_torrent, lines 501-515: the request and the write of the file
\* succeed, or raise into the handler of lines 529-532
download_torrent(t) ==
  /\ dlCount' = [dlCount EXCEPT ![cand[t].id] = @ + 1]
  /\ \E ok \in BOOLEAN :
        /\ Goto(t, IF ok THEN "dl_ok" ELSE "err")
        /\ dlFailed' = (IF ok THEN dlFailed ELSE dlFailed \cup {cand[t].id})
  /\ UNCHANGED <<cand, counted>>

\* lines 329-330 and 390-391: with a bound configured, get_torrent_size;
\* with none, download_torrent at once (341, 405)
SizeFetch(t, after) ==
  /\ IF cfg.min_size.some \/ cfg.max_size.some
     THEN /\ \E p \in Payloads :
                size_gb' = [size_gb EXCEPT ![t] = get_torrent_size(p)]
          /\ Goto(t, after)
          /\ UNCHANGED <<cand, counted, dlCount, dlFailed>>
     ELSE /\ download_torrent(t)
          /\ UNCHANGED size_gb
  /\ ev' = {}
  /\ UNCHANGED <<fixed, irc, mon, tmp, reconnect_attempts, linesLeft,
                 entriesLeft, stopCalls, flAnnounced>>

\* a size decision whose skip does not keep download_torrent from running
SizeDecideFallsThrough(t) ==
  /\ download_torrent(t)
  /\ size_gb' = [size_gb EXCEPT ![t] = NoneNum]
  /\ ev' = {}
  /\ UNCHANGED <<fixed, irc, mon, tmp, reconnect_attempts, linesLeft,
                 entriesLeft, stopCalls, flAnnounced>>

\* lines 331-341 and 392-405: skip the candidate, or download_torrent
SizeDecide(t) ==
  /\ IF SizeRejects(cfg.min_size, cfg.max_size, size_gb[t])
     THEN Done(t) /\ UNCHANGED <<dlCount, dlFailed>>
     ELSE download_torrent(t)
  /\ size_gb' = [size_gb EXCEPT ![t] = NoneNum]
  /\ ev' = {}
  /\ UNCHANGED <<fixed, irc, mon, tmp, reconnect_attempts, linesLeft,
                 entriesLeft, stopCalls, flAnnounced>>

\* lines 315-330
LiveSize ==
  /\ Alive("mon")
  /\ pc["mon"] = "cb_size"
  /\ SizeFetch("mon", "cb_decide")

\* lines 331-341
LiveDecide ==
  /\ Alive("mon")
  /\ pc["mon"] = "cb_decide"
  /\ SizeDecide("mon")

(* ------------------- TorrentMonitor.download_torrent ------------------- *)
\* line 519: self.stats['torrents_downloaded'] += 1
DownloadedLoad(t) ==
  /\ Alive(t)
  /\ pc[t] = "dl_ok"
  /\ Load(t, "torrents_downloaded", "dl_ok_st")

\* line 519 (the store), then lines 522-527: with FTP enabled,
\* upload_to_ftp (451-497) returns True or raises into its handler, which
\* counts an error; download_torrent returns True either way
DownloadedStore(t) ==
  /\ Alive(t)
  /\ pc[t] = "dl_ok_st"
  /\ stats' = [stats EXCEPT !["torrents_downloaded"] = tmp[t] + 1]
  /\ tmp' = [tmp EXCEPT ![t] = 0]
  /\ \E uploaded \in BOOLEAN :
        IF cfg.ftp_enabled /\ ~uploaded
        THEN /\ Goto(t, "ftp_err")
             /\ ev' = {}
             /\ UNCHANGED <<cand, counted>>
        ELSE /\ Done(t)
             /\ ev' = {"dl_true"}
  /\ UNCHANGED <<fixed, irc, processed_torrents, mon_running, loops,
                 flAnnounced, dlCount, dlFailed>>

\* lines 496 and 531: self.stats['errors'] += 1, in the handler of
\* upload_to_ftp ("ftp_err") and in that of download_torrent ("err");
\* then download_torrent returns True (527) or False (532)
ErrorsLoad(t) ==
  /\ Alive(t)
  /\ pc[t] \in {"err", "ftp_err"}
  /\ Load(t, "errors", IF pc[t] = "err" THEN "err_st" ELSE "ftp_err_st")

ErrorsStore(t) ==
  /\ Alive(t)
  /\ pc[t] \in {"err_st", "ftp_err_st"}
  /\ stats' = [stats EXCEPT !["errors"] = tmp[t] + 1]
  /\ tmp' = [tmp EXCEPT ![t] = 0]
  /\ ev' = (IF pc[t] = "err_st" THEN {"dl_false"} ELSE {"dl_true"})
  /\ Done(t)
  /\ UNCHANGED <<fixed, irc, processed_torrents, mon_running, loops,
                 flAnnounced, dlCount, dlFailed>>

(* -------------------- TorrentMonitor.check_rss_feed -------------------- *)
\* a feed entry: the trailing segment of entry.id (0: none), the term of
\* the first tag or 'Unknown', and whether entry.link is non-empty
Entries ==
  {Cand(i, FALSE, Some(c), l) :
     i \in {0} \cup Ids, c \in CatValues \cup {CatUnknown, CatHTV},
     l \in BOOLEAN}

\* run, lines 583-588, and check_rss_feed, lines 346-353: the cycle is
\* counted, the feed is fetched and parsed; it raises, is empty, or has
\* entries
PollStart ==
  /\ pc["main"] = "mloop"
  /\ mon_running
  /\ stats["rss_checks"] < MaxPolls
  /\ stats' = [stats EXCEPT !["rss_checks"] = @ + 1]
  /\ \/ /\ Goto("main", "rss_err")
        /\ entriesLeft' = 0
     \/ /\ Goto("main", "mloop")
        /\ entriesLeft' = 0
     \/ /\ Goto("main", "f_check")
        /\ entriesLeft' \in 1..MaxFeed
  /\ ev' = {}
  /\ UNCHANGED <<fixed, irc, processed_torrents, mon_running, cand, tmp,
                 size_gb, reconnect_attempts, linesLeft, stopCalls, history>>

\* lines 412-414: except Exception: self.stats['errors'] += 1
PollErrorLoad ==
  /\ pc["main"] = "rss_err"
  /\ Load("main", "errors", "rss_err_st")

PollErrorStore ==
  /\ pc["main"] = "rss_err_st"
  /\ Store("main", "errors")
  /\ Goto("main", "mloop")
  /\ UNCHANGED <<fixed, irc, processed_torrents, mon_running, cand, loops,
                 history>>

\* lines 355-362: the next entry, skipped without an id or when its id is
\* in processed_torrents; after the last entry the cycle ends (409-410)
FeedCheck ==
  /\ pc["main"] = "f_check"
  /\ IF entriesLeft = 0
     THEN /\ Goto("main", "mloop")
          /\ UNCHANGED <<entriesLeft, cand>>
     ELSE /\ entriesLeft' = entriesLeft - 1
          /\ \E e \in Entries :
                IF e.id = 0 \/ AlreadyProcessed(e.id)
                THEN UNCHANGED <<pc, cand>>
                ELSE /\ cand' = [cand EXCEPT !["main"] = e]
                     /\ Goto("main", "f_fl")
  /\ ev' = {}
  /\ UNCHANGED <<fixed, irc, mon, tmp, size_gb, reconnect_attempts, linesLeft,
                 stopCalls, history>>

\* a confirmation that answers True for every identifier
is_freeleech_any(torrent_id) == torrent_id = torrent_id

\* TorrentLeechIRC.is_freeleech, lines 228-230
is_freeleech(torrent_id) == torrent_id \in freeleech_torrents

\* lines 364-376: the category filter, then the confirmation by IRC
FeedAccepts(e) ==
  /\ cfg.categories # <<>> => CategoryMatches(cfg.categories, e.category.v)
  /\ is_freeleech(e.id)

FeedFilter ==
  /\ pc["main"] = "f_fl"
  /\ IF FeedAccepts(cand["main"])
     THEN Accepted("main", "f_insert")
     ELSE Done("main")
  /\ ev' = {}
  /\ UNCHANGED <<fixed, irc, mon, tmp, loops, flAnnounced, dlCount, dlFailed>>

\* line 379
FeedInsert ==
  /\ pc["main"] = "f_insert"
  /\ Insert("main", "f_found")

\* lines 380-381: new_found += 1; self.stats['torrents_found'] += 1
FeedFoundLoad ==
  /\ pc["main"] = "f_found"
  /\ Load("main", "torrents_found", "f_found_st")

FeedFoundStore ==
  /\ pc["main"] = "f_found_st"
  /\ Store("main", "torrents_found")
  /\ counted' = [counted EXCEPT !["main"] = TRUE]
  /\ Goto("main", "f_size")
  /\ UNCHANGED <<fixed, irc, processed_torrents, mon_running, cand, loops,
                 flAnnounced, dlCount, dlFailed>>

\* lines 384-391 and 406-407: without a link only a warning; with one,
\* the size is fetched
FeedSize ==
  /\ pc["main"] = "f_size"
  /\ IF cand["main"].link
     THEN SizeFetch("main", "f_decide")
     ELSE /\ Done("main")
          /\ ev' = {}
          /\ UNCHANGED <<fixed, irc, mon, tmp, loops, flAnnounced, dlCount, dlFailed>>

\* lines 392-405
FeedDecide ==
  /\ pc["main"] = "f_decide"
  /\ SizeDecide("main")

(* ------------------------- shutdown: stop() ---------------------------- *)
\* where the main thread is inside the try block of run (lines 582-596)
InMainLoop ==
  pc["main"] \in {"mloop", "rss_err", "rss_err_st", "f_check", "f_fl",
                  "f_insert", "f_found", "f_found_st", "f_size", "f_decide", "dl_ok",
                  "dl_ok_st", "err", "err_st", "ftp_err", "ftp_err_st"}

\* stop, lines 605-606, and stop_monitor, line 224: both running flags
StopFlags ==
  /\ mon_running' = FALSE
  /\ irc_running' = FALSE
  /\ Goto("main", "s_join")

\* lines 762-768: SIGINT or SIGTERM arrives, signal_handler calls
\* monitor.stop() on the main thread, on top of whatever it was doing
Signal ==
  /\ InMainLoop
  /\ stopCalls = 0
  /\ stopCalls' = 1
  /\ StopFlags
  /\ cand' = [cand EXCEPT !["main"] = NoCand]
  /\ tmp' = [tmp EXCEPT !["main"] = 0]
  /\ size_gb' = [size_gb EXCEPT !["main"] = NoneNum]
  /\ counted' = [counted EXCEPT !["main"] = FALSE]
  /\ entriesLeft' = 0
  /\ ev' = {}
  /\ UNCHANGED <<fixed, sock, connected, freeleech_torrents,
                 processed_torrents, stats, reconnect_attempts, linesLeft,
                 flAnnounced, dlCount, dlFailed>>

\* stop, lines 608-609, returns.  Returning to signal_handler, sys.exit(0)
\* unwinds run, whose finally block (line 601) calls stop() once more;
\* returning to that finally block, the process ends and the daemon
\* thread with it.
StopReturns ==
  IF stopCalls = 1
  THEN /\ stopCalls' = 2
       /\ StopFlags
  ELSE /\ Goto("main", "exited")
       /\ UNCHANGED <<stopCalls, mon_running, irc_running>>

\* stop_monitor, lines 225-226: join(timeout=5) returns when the thread
\* has ended, or after the timeout with the thread still running
StopJoin ==
  /\ pc["main"] = "s_join"
  /\ Goto("main", "s_disc")
  /\ ev' = {}
  /\ UNCHANGED <<fixed, irc, mon, cand, tmp, loops, history>>

\* disconnect, lines 234-239: only when connected: QUIT, socket.close()
Disconnect ==
  /\ pc["main"] = "s_disc"
  /\ IF connected
     THEN /\ sock' = "closed"
          /\ ev' = (IF SendFails THEN {"quit_failed"} ELSE {})
          /\ Goto("main", "s_disc2")
          /\ UNCHANGED <<stopCalls, mon_running, irc_running>>
     ELSE /\ StopReturns
          /\ ev' = {}
          /\ UNCHANGED sock
  /\ UNCHANGED <<fixed, connected, freeleech_torrents, processed_torrents,
                 stats, cand, tmp, size_gb, reconnect_attempts, linesLeft, entriesLeft,
                 history>>

\* disconnect, line 240: self.connected = False
DisconnectFlag ==
  /\ pc["main"] = "s_disc2"
  /\ connected' = FALSE
  /\ StopReturns
  /\ ev' = {}
  /\ UNCHANGED <<fixed, sock, freeleech_torrents, processed_torrents, stats,
                 cand, tmp, size_gb, reconnect_attempts, linesLeft, entriesLeft,
                 history>>

(* ------------------------- the specification --------------------------- *)
Next ==
  \/ TransportFails
  \/ Run
  \/ \E t \in Threads : ConnectOpen(t)
  \/ \E t \in Threads : ConnectRegister(t)
  \/ \E t \in Threads : ConnectRegRead(t)
  \/ \E t \in Threads : ConnectJoin(t)
  \/ \E t \in Threads : ConnectPostJoin(t)
  \/ \E t \in Threads : ConnectSet(t)
  \/ StartMonitor
  \/ MonitorInit
  \/ MonitorWhile
  \/ MonitorCheckConnected
  \/ MonitorRead
  \/ MonitorLine
  \/ LiveCheck
  \/ LiveInsert
  \/ LiveFoundLoad
  \/ LiveFoundStore
  \/ LiveSize
  \/ LiveDecide
  \/ \E t \in Threads : DownloadedLoad(t)
  \/ \E t \in Threads : DownloadedStore(t)
  \/ \E t \in Threads : ErrorsLoad(t)
  \/ \E t \in Threads : ErrorsStore(t)
  \/ PollStart
  \/ PollErrorLoad
  \/ PollErrorStore
  \/ FeedCheck
  \/ FeedFilter
  \/ FeedInsert
  \/ FeedFoundLoad
  \/ FeedFoundStore
  \/ FeedSize
  \/ FeedDecide
  \/ Signal
  \/ StopJoin
  \/ Disconnect
  \/ DisconnectFlag

Spec == Init /\ [][Next]_vars

(* ------------------------------ properties ----------------------------- *)
\* where each thread is once its candidate has passed the check against
\* processed_torrents and the filters, up to the end of the pipeline
LivePast ==
  {"cb_insert", "cb_found", "cb_found_st", "cb_size", "cb_decide", "dl_ok",
   "dl_ok_st", "err", "err_st", "ftp_err", "ftp_err_st"}
FeedPast ==
  {"f_insert", "f_found", "f_found_st", "f_size", "f_decide", "dl_ok",
   "dl_ok_st", "err", "err_st", "ftp_err", "ftp_err_st"}
DecidePc(t) == IF t = "mon" THEN "cb_decide" ELSE "f_decide"
\* thread t takes its size decision in this step
Decides(t) ==
  /\ pc[t] = DecidePc(t)
  /\ pc'[t] \in {NextItem(t), "dl_ok", "err"}
\* the size of t's candidate is known and outside the configured bounds
OutOfBounds(t) ==
  /\ size_gb[t].some
  /\ \/ cfg.min_size.some /\ size_gb[t].v < cfg.min_size.v
     \/ cfg.max_size.some /\ size_gb[t].v > cfg.max_size.v

\* C1: for every identifier, download_torrent is invoked at most once, and
\* the callback and the feed poller are never both past the check on
\* processed_torrents for the same identifier.
C1_CheckAndInsertAtomic ==
  /\ \A x \in Ids : dlCount[x] <= 1
  /\ ~(/\ pc["mon"] \in LivePast
       /\ pc["main"] \in FeedPast
       /\ cand["mon"].id = cand["main"].id)

\* C2: the feed poller inserts into processed_torrents and invokes the
\* pipeline only for an identifier that is_freeleech confirms; an
\* identifier that is not confirmed is neither processed nor downloaded.
C2_FeedNeedsConfirmation ==
  /\ pc["main"] \in FeedPast => cand["main"].id \in freeleech_torrents
  /\ processed_torrents \subseteq freeleech_torrents
  /\ \A x \in Ids : dlCount[x] > 0 => x \in freeleech_torrents

\* C2, its case: the feed poller has invoked the pipeline for a confirmed
\* identifier
C2_FeedDownloads ==
  /\ pc["main"] \in {"dl_ok", "err"}
  /\ cand["main"].id \in freeleech_torrents
  /\ dlCount[cand["main"].id] > 0

\* C3: every identifier in freeleech_torrents comes from an announcement
\* parsed with freeleech true.
C3_OnlyFreeleechConfirmed == freeleech_torrents \subseteq flAnnounced

\* C4: the insert into processed_torrents succeeds only on the first
\* arrival of an identifier: whichever thread inserts, the identifier was
\* not in processed_torrents before.
C4_FirstArrivalOnly ==
  [][\A t \in Threads :
       (/\ pc[t] \in {"cb_insert", "f_insert"}
        /\ pc'[t] \in {"cb_found", "f_found"})
       => cand[t].id \notin processed_torrents]_vars

\* C6: when a send or a read of the client has failed, in connect or in
\* the steady-state loop, the client is not connected.
C6_FailureDisconnects == "io_failed" \in ev => ~connected

\* C7: no received PING is discarded without its PONG.
C7_EveryPingAnswered == "ping_dropped" \notin ev

C9_UnknownSizeNeverRejects ==
  [][\A t \in Threads :
       Decides(t) =>
         /\ ~size_gb[t].some =>
              /\ pc'[t] \in {"dl_ok", "err"}
              /\ dlCount'[cand[t].id] = dlCount[cand[t].id] + 1
         /\ pc'[t] = NextItem(t) => OutOfBounds(t)]_vars

\* C9, its case: get_torrent_size has returned None under a configured
\* bound and the decision is about to be taken
C9_UnknownSizeFetched ==
  \E t \in Threads :
    /\ pc[t] = DecidePc(t)
    /\ ~size_gb[t].some
    /\ cfg.min_size.some \/ cfg.max_size.some

\* C10 as stated: when a candidate is rejected by the size filter,
\* download_torrent is not invoked, errors is unchanged, and the thread
\* has not incremented torrents_found for the candidate.
C10_RejectedBeforeFound ==
  [][\A t \in Threads :
       (Decides(t) /\ OutOfBounds(t)) =>
         /\ dlCount' = dlCount
         /\ stats'["errors"] = stats["errors"]
         /\ ~counted[t]]_vars

\* C10 as amended: when a candidate is rejected by the size filter,
\* download_torrent is not invoked and the rejection changes no counter,
\* while the thread has already incremented torrents_found for it.
C10_RejectedAfterFound ==
  [][\A t \in Threads :
       (Decides(t) /\ OutOfBounds(t)) =>
         /\ dlCount' = dlCount
         /\ stats' = stats
         /\ pc'[t] = NextItem(t)
         /\ counted[t]]_vars

\* C10, its case: a counted candidate of known size outside the bounds
\* is about to be skipped
C10_RejectPending ==
  \E t \in Threads :
    /\ pc[t] = DecidePc(t)
    /\ OutOfBounds(t)
    /\ counted[t]
\* C11: when the download of an accepted identifier has failed, errors
\* increases by exactly one, torrents_downloaded is unchanged, the
\* identifier is in processed_torrents, and download_torrent is never
\* invoked again for an identifier whose download has failed.
C11_FailedDownloadNoRetry ==
  [][/\ \A t \in Threads :
          (pc[t] = "err_st" /\ pc'[t] = NextItem(t)) =>
            /\ stats'["errors"] = stats["errors"] + 1
            /\ stats'["torrents_downloaded"] = stats["torrents_downloaded"]
            /\ cand[t].id \in processed_torrents'
     /\ \A x \in dlFailed : dlCount'[x] = dlCount[x]]_vars

\* C12: when the FTP upload has failed after a download, errors increases
\* by one, torrents_downloaded keeps its increment, download_torrent
\* returns True, the caller goes on to its next item and neither loop is
\* stopped.
C12_RelayFailureCounted ==
  [][\A t \in Threads :
       (pc[t] = "ftp_err_st" /\ pc'[t] = NextItem(t)) =>
         /\ stats'["errors"] = stats["errors"] + 1
         /\ stats'["torrents_downloaded"] = stats["torrents_downloaded"]
         /\ stats["torrents_downloaded"] >= 1
         /\ "dl_true" \in ev'
         /\ mon_running' = mon_running
         /\ irc_running' = irc_running]_vars

\* C13: every poll cycle increases rss_checks by exactly one, failed or
\* not; a failed cycle increases errors by exactly one and the main loop
\* goes on to its next cycle.
C13_PollFailureContained ==
  [][/\ (pc["main"] = "mloop" /\ pc'["main"] \in {"rss_err", "f_check"})
        => stats'["rss_checks"] = stats["rss_checks"] + 1
     /\ stats'["rss_checks"] # stats["rss_checks"]
        => /\ pc["main"] = "mloop"
           /\ stats'["rss_checks"] = stats["rss_checks"] + 1
     /\ (pc["main"] = "rss_err_st" /\ pc'["main"] = "mloop")
        => /\ stats'["errors"] = stats["errors"] + 1
           /\ mon_running']_vars

\* C14: every shutdown runs in this order: the read loop is told to stop
\* and joined, then QUIT is sent and the transport closed, then the main
\* loop is stopped; so the main loop's flag is cleared only with the read
\* loop's flag cleared and the transport closed, the transport is closed
\* only after the join, and stop() returns with the transport closed.
C14_ShutdownOrder ==
  [][/\ (mon_running /\ ~mon_running')
        => (~irc_running /\ sock = "closed")
     /\ (sock # "closed" /\ sock' = "closed")
        => (~irc_running /\ pc["main"] = "s_disc")
     /\ (pc["main"] # "exited" /\ pc'["main"] = "exited")
        => sock' = "closed"]_vars

\* C15: once stop_monitor and disconnect have run and the process has
\* ended, no socket opened by connect() is left unclosed.
C15_TransportClosedAfterShutdown ==
  pc["main"] = "exited" => sock \in {"none", "closed"}

\* C17: with a category filter configured (the term "tv"), a feed entry
\* passes the filter exactly when its category contains the term in any
\* case ("TV", "HTV"; not "Mo", not "Unknown"): only a passing entry is
\* accepted, a passing and confirmed entry is accepted, and an entry that
\* does not pass is skipped with processed_torrents and the counters
\* unchanged.
C17_FeedCategoryFilter ==
  [][(/\ cfg.categories # <<>>
      /\ pc["main"] = "f_fl"
      /\ pc'["main"] \in {"f_insert", "f_check"})
     => LET passes == cand["main"].category.v \in {CatTV, CatHTV} IN
        /\ pc'["main"] = "f_insert" => passes
        /\ (passes /\ cand["main"].id \in freeleech_torrents)
           => pc'["main"] = "f_insert"
        /\ ~passes => /\ pc'["main"] = "f_check"
                      /\ processed_torrents' = processed_torrents
                      /\ stats' = stats]_vars

\* C17, its case: an entry has passed the configured category filter
C17_FilteredEntryAccepted ==
  /\ cfg.categories # <<>>
  /\ pc["main"] = "f_insert"

\* C20: whenever connected is True, the connect() run that set it has sent
\* PASS (exactly when a password is configured, and first), then NICK and
\* USER, then waited, then JOIN; and while a connect() run has not yet
\* sent JOIN, connected is False.
C20_RegistrationOrder ==
  /\ connected =>
       sent = (IF cfg.password THEN <<"PASS">> ELSE <<>>)
              \o <<"NICK", "USER", "settle", "JOIN">>
  /\ \A t \in Threads :
       pc[t] \in {"c_open", "c_reg", "c_regread", "c_join"} => ~connected

\* C20, its case: a connect() run with a password has ended with
\* connected = True
C20_ConnectedWithPassword ==
  /\ connected
  /\ cfg.password
  /\ pc["main"] \in {"start_monitor", "mloop"}

(* ------------------------------ fairness ------------------------------- *)
\* the steps of the main thread other than the arrival of a signal, and
\* the steps of the monitor thread
MainNext ==
  \/ Run
  \/ ConnectOpen("main") \/ ConnectRegister("main") \/ ConnectRegRead("main")
  \/ ConnectJoin("main") \/ ConnectPostJoin("main") \/ ConnectSet("main")
  \/ StartMonitor
  \/ DownloadedLoad("main") \/ DownloadedStore("main")
  \/ ErrorsLoad("main") \/ ErrorsStore("main")
  \/ PollStart \/ PollErrorLoad \/ PollErrorStore
  \/ FeedCheck \/ FeedFilter \/ FeedInsert \/ FeedFoundLoad \/ FeedFoundStore
  \/ FeedSize \/ FeedDecide
  \/ StopJoin \/ Disconnect \/ DisconnectFlag
MonNext ==
  \/ ConnectOpen("mon") \/ ConnectRegister("mon") \/ ConnectRegRead("mon")
  \/ ConnectJoin("mon") \/ ConnectPostJoin("mon") \/ ConnectSet("mon")
  \/ MonitorInit \/ MonitorWhile \/ MonitorCheckConnected \/ MonitorRead
  \/ MonitorLine
  \/ LiveCheck \/ LiveInsert \/ LiveFoundLoad \/ LiveFoundStore
  \/ LiveSize \/ LiveDecide
  \/ DownloadedLoad("mon") \/ DownloadedStore("mon")
  \/ ErrorsLoad("mon") \/ ErrorsStore("mon")

\* both threads are scheduled as long as they can run
FairSpec == Spec /\ WF_vars(MainNext) /\ WF_vars(MonNext)

\* C19: whenever the client is not connected while the process is running
\* and fewer than max_reconnect attempts have failed, a reconnect attempt
\* (a call of connect() by the monitor loop) follows, unless the process
\* is stopped first.
C19_ReconnectFollows ==
  (/\ ~connected
   /\ mon_running
   /\ pc["main"] = "mloop"
   /\ reconnect_attempts < max_reconnect)
  ~> (pc["mon"] = "c_open" \/ ~mon_running)

(* ----------------- parse_announce_message on its own ------------------- *)
InitParse ==
  /\ cfg = Config(<<>>, NoneNum, NoneNum, FALSE, FALSE)
  /\ sent = <<>>
  /\ message \in Messages
  /\ parsed = "unparsed"
  /\ loop_thread = [k \in 1..MaxStarts |-> "none"]
  /\ caller = "idle"
  /\ calls = 0
  /\ sock = "none"
  /\ connected = FALSE
  /\ irc_running = FALSE
  /\ freeleech_torrents = {}
  /\ processed_torrents = {}
  /\ stats = [rss_checks |-> 0, torrents_found |-> 0,
              torrents_downloaded |-> 0, errors |-> 0]
  /\ mon_running = FALSE
  /\ pc = [t \in Threads |-> "idle"]
  /\ cand = [t \in Threads |-> NoCand]
  /\ tmp = [t \in Threads |-> 0]
  /\ size_gb = [t \in Threads |-> NoneNum]
  /\ reconnect_attempts = 0
  /\ linesLeft = 0
  /\ entriesLeft = 0
  /\ stopCalls = 0
  /\ flAnnounced = {}
  /\ dlCount = [i \in Ids |-> 0]
  /\ dlFailed = {}
  /\ counted = [t \in Threads |-> FALSE]
  /\ ev = {}

\* the freeleech entry of the dict that parse_announce_message returns
ParseMessage ==
  /\ parsed = "unparsed"
  /\ parsed' = (IF freeleech_search(message) THEN "true" ELSE "false")
  /\ UNCHANGED <<cfg, sent, message, loop_thread, caller, calls, irc, mon,
                 pc, cand, tmp, loops, history, ev>>

ParseSpec == InitParse /\ [][ParseMessage]_vars

Started == {k \in 1..MaxStarts : loop_thread[k] # "none"}
Executing == {k \in 1..MaxStarts : loop_thread[k] \in {"while", "body"}}
\* what these calls and threads leave alone
untouched ==
  <<cfg, sent, message, parsed, sock, connected, freeleech_torrents, mon, pc,
    cand, tmp, loops, history, ev>>

\* start_monitor, lines 165-219: return at once when self.running; else
\* self.running = True, and a new thread, kept in self.monitor_thread
ApiStartMonitor ==
  /\ caller = "idle"
  /\ calls < MaxCalls
  /\ calls' = calls + 1
  /\ IF irc_running
     THEN UNCHANGED <<irc_running, loop_thread>>
     ELSE /\ Cardinality(Started) < MaxStarts
          /\ irc_running' = TRUE
          /\ loop_thread' =
               [loop_thread EXCEPT ![Cardinality(Started) + 1] = "while"]
  /\ UNCHANGED <<caller, untouched>>

\* stop_monitor, lines 224-226: self.running = False, then the join when
\* there is a monitor_thread
ApiStopMonitor ==
  /\ caller = "idle"
  /\ calls < MaxCalls
  /\ calls' = calls + 1
  /\ irc_running' = FALSE
  /\ caller' = (IF Started = {} THEN "idle" ELSE "joining")
  /\ UNCHANGED <<loop_thread, untouched>>

\* line 226: join(timeout=5) returns when monitor_thread has ended, or
\* after five seconds with the thread still executing
ApiJoinReturns ==
  /\ caller = "joining"
  /\ caller' = "idle"
  /\ UNCHANGED <<calls, irc_running, loop_thread, untouched>>

\* line 175: while self.running
ThreadWhile(k) ==
  /\ loop_thread[k] = "while"
  /\ loop_thread' =
       [loop_thread EXCEPT ![k] = IF irc_running THEN "body" ELSE "ended"]
  /\ UNCHANGED <<calls, caller, irc_running, untouched>>

\* lines 176-216: one round of the loop body
ThreadBody(k) ==
  /\ loop_thread[k] = "body"
  /\ loop_thread' = [loop_thread EXCEPT ![k] = "while"]
  /\ UNCHANGED <<calls, caller, irc_running, untouched>>

ApiNext ==
  \/ ApiStartMonitor
  \/ ApiStopMonitor
  \/ ApiJoinReturns
  \/ \E k \in 1..MaxStarts : ThreadWhile(k)
  \/ \E k \in 1..MaxStarts : ThreadBody(k)

ApiSpec == Init /\ [][ApiNext]_vars

\* C16: a start_monitor call made while running is set changes nothing,
\* and at every moment at most one thread executes monitor_loop.
C16_OneMonitorLoop ==
  [][/\ (irc_running /\ calls' = calls + 1 /\ irc_running')
        => loop_thread' = loop_thread
     /\ Cardinality(Executing') <= 1]_vars

(* ------------------ who writes the connection state -------------------- *)
\* the thread started by start_monitor is executing monitor_loop
MonitorAlive == pc["mon"] \notin {"idle", "dead"}

\* C21: a step of the main thread that writes connected, or closes or
\* replaces the socket, is taken only while no monitor loop is alive.
C21_OnlyOwnTaskWrites ==
  [][(/\ pc'["main"] # pc["main"]
      /\ connected' # connected \/ sock' # sock)
     => ~MonitorAlive]_vars

(* ------------------------------ counters ------------------------------- *)
\* C22: no step decreases rss_checks, torrents_found, torrents_downloaded
\* or errors.
C22_CountersMonotonic ==
  [][\A c \in DOMAIN stats : stats'[c] >= stats[c]]_vars

(* ------------------------------ end to end ----------------------------- *)
\* C23: download_torrent is invoked, by the callback or by the feed
\* poller, only for an identifier that the read loop has parsed from an
\* announcement with freeleech true.
C23_DownloadNeedsFreeleechAnnounce ==
  \A x \in Ids : dlCount[x] > 0 => x \in flAnnounced

(* ------------------ processed within the confirmation set -------------- *)
\* C24: processed_torrents is a subset of freeleech_torrents in every
\* state, and a step inserts into processed_torrents only identifiers that
\* were in freeleech_torrents before the step.
C24_ProcessedWithinConfirmed ==
  /\ processed_torrents \subseteq freeleech_torrents
  /\ [][/\ processed_torrents' \subseteq freeleech_torrents'
        /\ (processed_torrents' \ processed_torrents)
             \subseteq freeleech_torrents]_vars

\* C24, its case: the callback has just inserted its identifier, which
\* the read loop had put into freeleech_torrents
C24_LiveInserted ==
  /\ pc["mon"] = "cb_found"
  /\ cand["mon"].id \in processed_torrents
  /\ cand["mon"].id \in freeleech_torrents

(* ---------------------- category filter, live path --------------------- *)
\* C25: with a category filter configured, the callback goes on to the
\* insert into processed_torrents (and from there to download_torrent)
\* only for an announcement that has a category containing a configured
\* term.
C25_LiveCategoryFilter ==
  [][(/\ pc["mon"] = "cb_check"
      /\ pc'["mon"] = "cb_insert"
      /\ cfg.categories # <<>>)
     => /\ cand["mon"].category.some
        /\ CategoryMatches(cfg.categories, cand["mon"].category.v)]_vars

(* --------------------------- after stop() ------------------------------ *)
\* a call of stop() has returned: to signal_handler, whose sys.exit(0)
\* has run's finally block call stop() again, or to that finally block
StopReturned == stopCalls = 2 \/ pc["main"] = "exited"

\* C26: once stop() has returned, no step changes processed_torrents or a
\* counter, invokes download_torrent, or hands an announcement to the
\* callback.
C26_QuietAfterStop ==
  [][StopReturned
     => /\ processed_torrents' = processed_torrents
        /\ stats' = stats
        /\ dlCount' = dlCount
        /\ pc'["mon"] = "cb_check" => pc["mon"] = "cb_check"]_vars

=============================================================================
